---- MODULE Spec2Model ----
(***************************************************************************)
(* xbmcswift2.cli.app: the command-line runner of a plugin.                *)
(*                                                                         *)
(* PluginManager.run patches sys.argv and dispatches to one of three run   *)
(* modes: once, interactive and crawl.  The plugin, the console prompts    *)
(* and ListItem live outside cli/app.py; they are modelled by the contract *)
(* the runner uses: plugin.run() answers a listing for sys.argv[0] and     *)
(* leaves plugin.request and plugin._update_listing behind, the prompts    *)
(* answer any item of the listing shown (or None) and continue or quit.    *)
(*                                                                         *)
(* Paths are opaque strings in the program; here they are 1..NumPaths and  *)
(* the run starts at path 1.  A crawl runs over a listing graph on these   *)
(* paths, fixed for the run; in once and interactive mode the plugin may   *)
(* answer any listing of at most MaxItems items at every run, which covers *)
(* every listing graph on the paths its items name.                        *)
(***************************************************************************)
EXTENDS Integers, Sequences, FiniteSets, TLC

\* Number of distinct paths of the plugin's address space.
NumPaths == 3
\* Number of those paths the plugin's items name in once and interactive mode.
NavPaths == 2
\* Longest listing the plugin answers in once and interactive mode.
MaxItems == 1
\* Plugin invocations after which the interactive user is no longer followed.
MaxCalls == 4
\* Prompts of a crawl answered 'continue' after which the crawl is no longer
\* followed; a crawl over NumPaths paths asks fewer.
MaxPrompts == 5

\* handle = 0 in PluginManager.run
Handle == 0

Paths == 1..NumPaths

\* self.url or 'plugin://%s/' % self.plugin.id
StartUrl == CHOOSE p \in Paths : \A q \in Paths : p <= q

Modes == {"once", "interactive", "crawl"}

VARIABLES
    mode,            \* PluginManager.mode
    pc,              \* position of the running handler
    argv,            \* sys.argv as patched: [path, handle]
    request,         \* plugin.request of the last plugin.run(): [url, handle]
    update_listing,  \* plugin._update_listing
    end_of_directory,\* plugin._end_of_directory
    run_eod,         \* log: _end_of_directory as the last plugin.run() found it
    calls,           \* log: how many times plugin.run() ran for each path
    once_count,      \* log: number of calls of once()
    plugin_out,      \* log: what the last plugin.run() answered
    once_parent,     \* log: parent_item argument of the last once()
    returned,        \* return value of the last once()
    items,           \* interactive: listing handed to get_user_choice
    parent_stack,    \* interactive: parent_stack
    selected_item,   \* interactive: selected_item
    choice,          \* log: what the last get_user_choice() answered
    branch,          \* log: branch the last loop iteration of interactive took
    prev_url,        \* log: plugin.request.url when the last choice was made
    links,           \* crawl: the plugin's listing graph, path -> paths listed
    paths_visited,   \* crawl: paths_visited
    paths_to_visit,  \* crawl: paths_to_visit
    confirmed,       \* log: number of prompts answered 'continue'
    declined,        \* log: continue_or_quit() answered 'quit'
    disc             \* log: depth at which a path first entered paths_to_visit

run_vars == <<mode, pc, argv, request, update_listing, end_of_directory,
              run_eod, calls, once_count, plugin_out, once_parent, returned>>
nav_vars == <<items, parent_stack, selected_item, choice, branch, prev_url>>
crawl_vars == <<links, paths_visited, paths_to_visit, confirmed, declined, disc>>
vars == <<run_vars, nav_vars, crawl_vars>>

----------------------------------------------------------------------------
(* ListItem *)

\* A ListItem: its path, its played flag, and oid, the identity of the object.
\* Items the plugin builds are fresh objects on every run (oid 0); an item of
\* parent_stack carries the stack position it was pushed at, which no other
\* live item of the stack shares.
Item(path, played, oid) == [path |-> path, played |-> played, oid |-> oid]

\* Python's None, and a name not bound yet.
None == [path |-> 0, played |-> FALSE, oid |-> 0 - 1]
Unbound == [path |-> 0, played |-> FALSE, oid |-> 0 - 2]

PluginItems == {Item(p, b, 0) : p \in 1..NavPaths, b \in BOOLEAN}

\* ListItem.from_dict(label='..', path=url): a new object, not played.
FromDict(url, oid) == Item(url, FALSE, oid)

RECURSIVE SeqsUpTo(_, _)
SeqsUpTo(S, n) ==
    IF n = 0 THEN {<<>>}
    ELSE LET shorter == SeqsUpTo(S, n - 1)
         IN  shorter \cup {Append(s, x) : s \in {t \in shorter : Len(t) = n - 1}, x \in S}

Listings == SeqsUpTo(PluginItems, MaxItems)

\* A listing of exactly the paths of S, in ascending order, nothing played.
RECURSIVE ListingOf(_)
ListingOf(S) ==
    IF S = {} THEN <<>>
    ELSE LET p == CHOOSE x \in S : \A y \in S : x <= y
         IN  <<Item(p, FALSE, 0)>> \o ListingOf(S \ {p})

\* What plugin.run() may answer for url: its items, the _update_listing it
\* leaves, and the _end_of_directory it leaves (eod): a run ends the directory
\* of its listing, which is why patch_plugin has to reset the flag "to enable
\* a new call to plugin.run()".  A crawl runs over the listing graph links;
\* otherwise the plugin may answer any listing at every run.
PluginResults(url) ==
    IF mode = "crawl"
    THEN {[items |-> ListingOf(links[url]), update |-> FALSE, eod |-> TRUE]}
    ELSE [items : Listings, update : BOOLEAN, eod : {TRUE}]

----------------------------------------------------------------------------
(* patch_plugin, once *)

\* Mutant: the handle is left at its default, None.
PatchPluginNoHandle(path) == [path |-> path, handle |-> None.oid]

\* patch_plugin(plugin, path): handle defaults to plugin.request.handle.
PatchPlugin(path) == [path |-> path, handle |-> request.handle]

\* patch_plugin: plugin._end_of_directory = False
PatchEndOfDirectory(eod) == FALSE

\* Mutant: the parent item is appended.
OnceAppended(out, parent_item) ==
    IF parent_item # None THEN out \o <<parent_item>> ELSE out

\* once: items.insert(0, parent_item) when a parent_item is given.
Once(out, parent_item) ==
    IF parent_item # None THEN <<parent_item>> \o out ELSE out

\* once(plugin, parent_item) run with sys.argv = newargv and
\* plugin._end_of_directory = eod, the plugin answering res.
OnceCall(newargv, eod, parent_item, res) ==
    /\ argv' = newargv
    /\ run_eod' = eod
    /\ end_of_directory' = (eod \/ res.eod)
    /\ request' = [url |-> newargv.path, handle |-> newargv.handle]
    /\ calls' = [calls EXCEPT ![newargv.path] = @ + 1]
    /\ update_listing' = res.update
    /\ plugin_out' = res.items
    /\ once_count' = once_count + 1
    /\ once_parent' = parent_item
    /\ returned' = Once(res.items, parent_item)

RECURSIVE Sum(_, _)
Sum(f, S) ==
    IF S = {} THEN 0
    ELSE LET x == CHOOSE y \in S : TRUE IN f[x] + Sum(f, S \ {x})

\* Number of plugin.run() calls so far.
NumCalls == Sum(calls, Paths)

\* Mutant: played items are kept.
NotPlayedUnfiltered(its) == its

\* [item for item in ... if not item.get_played()]
NotPlayed(its) == SelectSeq(its, LAMBDA it : ~it.played)

\* set(item.get_path() for item in ...)
PathSet(its) == {its[i].path : i \in 1..Len(its)}

----------------------------------------------------------------------------
(* PluginManager.run *)

Init ==
    /\ mode \in Modes
    /\ pc = "start"
    /\ argv = [path |-> StartUrl, handle |-> Handle]
    /\ request = [url |-> 0, handle |-> Handle]
    /\ update_listing = FALSE
    /\ end_of_directory = FALSE
    /\ run_eod = FALSE
    /\ calls = [p \in Paths |-> 0]
    /\ once_count = 0
    /\ plugin_out = <<>>
    /\ once_parent = None
    /\ returned = <<>>
    /\ items = <<>>
    /\ parent_stack = <<>>
    /\ selected_item = Unbound
    /\ choice = Unbound
    /\ branch = "none"
    /\ prev_url = 0
    /\ links \in IF mode = "crawl" THEN [Paths -> SUBSET Paths]
                                   ELSE {[p \in Paths |-> {}]}
    /\ paths_visited = {}
    /\ paths_to_visit = {}
    /\ confirmed = 0
    /\ declined = FALSE
    /\ disc = [p \in Paths |-> 0]

\* Modes.ONCE: once(plugin)
OnceRun ==
    /\ mode = "once" /\ pc = "start"
    /\ \E res \in PluginResults(argv.path) : OnceCall(argv, end_of_directory, None, res)
    /\ pc' = "exit"
    /\ UNCHANGED <<mode, nav_vars, crawl_vars>>

----------------------------------------------------------------------------
(* crawl *)

\* paths_visited = set(); paths_to_visit = set(... for item in once(plugin))
CrawlStart ==
    /\ mode = "crawl" /\ pc = "start"
    /\ \E res \in PluginResults(argv.path) :
          /\ OnceCall(argv, end_of_directory, None, res)
          /\ paths_to_visit' = PathSet(Once(res.items, None))
          /\ disc' = [p \in Paths |->
                        IF p \in PathSet(Once(res.items, None)) THEN 1 ELSE 0]
    /\ paths_visited' = {}
    /\ pc' = "loop"
    /\ UNCHANGED <<mode, nav_vars, links, confirmed, declined>>

\* while paths_to_visit and continue_or_quit(): the frontier is empty, so the
\* loop ends without a prompt.
CrawlExhausted ==
    /\ mode = "crawl" /\ pc = "loop"
    /\ paths_to_visit = {}
    /\ pc' = "done"
    /\ UNCHANGED <<mode, argv, request, update_listing, end_of_directory,
                   run_eod, calls, once_count, plugin_out, once_parent,
                   returned, nav_vars, crawl_vars>>

\* continue_or_quit() answers True: the loop body runs next.
CrawlContinue ==
    /\ mode = "crawl" /\ pc = "loop"
    /\ paths_to_visit # {}
    /\ confirmed < MaxPrompts
    /\ confirmed' = confirmed + 1
    /\ pc' = "fetch"
    /\ UNCHANGED <<mode, argv, request, update_listing, end_of_directory,
                   run_eod, calls, once_count, plugin_out, once_parent,
                   returned, nav_vars, links,
                   paths_visited, paths_to_visit, declined, disc>>

\* Mutant: the answer 'quit' is ignored and the loop body runs.
CrawlQuitIgnored ==
    /\ mode = "crawl" /\ pc = "loop"
    /\ paths_to_visit # {}
    /\ confirmed < MaxPrompts
    /\ declined' = TRUE
    /\ pc' = "fetch"
    /\ UNCHANGED <<mode, argv, request, update_listing, end_of_directory,
                   run_eod, calls, once_count, plugin_out, once_parent,
                   returned, nav_vars, links,
                   paths_visited, paths_to_visit, confirmed, disc>>

\* continue_or_quit() answers False: crawl returns.
CrawlQuit ==
    /\ mode = "crawl" /\ pc = "loop"
    /\ paths_to_visit # {}
    /\ confirmed < MaxPrompts
    /\ declined' = TRUE
    /\ pc' = "done"
    /\ UNCHANGED <<mode, argv, request, update_listing, end_of_directory,
                   run_eod, calls, once_count, plugin_out, once_parent,
                   returned, nav_vars, links,
                   paths_visited, paths_to_visit, confirmed, disc>>

\* Mutant: the paths found are not checked against paths_visited.
DiscoveredUnfiltered(new_paths, visited) == new_paths

\* Mutant: the paths found are checked against paths_visited as it was before
\* the path fetched was added.
DiscoveredBeforeAdd(new_paths, visited) ==
    {p \in new_paths : p \notin paths_visited}

\* paths_to_visit.update(path for path in new_paths if path not in paths_visited)
Discovered(new_paths, visited) == {p \in new_paths : p \notin visited}

\* Mutant: the paths found replace paths_to_visit.
ToVisitReplaced(to_visit, path, found) == found

\* paths_to_visit after path was popped from it and the paths found were added.
ToVisit(to_visit, path, found) == (to_visit \ {path}) \cup found

\* The loop body: path = paths_to_visit.pop() takes an arbitrary element.
CrawlFetch ==
    /\ mode = "crawl" /\ pc = "fetch"
    /\ \E path \in paths_to_visit :
         \E res \in PluginResults(path) :
            LET visited == paths_visited \cup {path}
                found == Discovered(PathSet(Once(res.items, None)), visited)
            IN  /\ paths_visited' = visited
                /\ OnceCall(PatchPlugin(path),
                            PatchEndOfDirectory(end_of_directory), None, res)
                /\ paths_to_visit' = ToVisit(paths_to_visit, path, found)
                /\ disc' = [p \in Paths |->
                              IF p \in found /\ disc[p] = 0
                              THEN disc[path] + 1 ELSE disc[p]]
    /\ pc' = "loop"
    /\ UNCHANGED <<mode, nav_vars, links, confirmed, declined>>

CrawlNext ==
    \/ CrawlStart
    \/ CrawlExhausted
    \/ CrawlContinue
    \/ CrawlQuit
    \/ CrawlFetch

----------------------------------------------------------------------------
(* interactive *)

Top(stack) == stack[Len(stack)]
Pop(stack) == SubSeq(stack, 1, Len(stack) - 1)

\* Mutant: the parent pushed carries the selected item's path.
NavigatePushSelected(stack, sel, upd, url) ==
    IF stack # <<>> /\ sel = Top(stack)
    THEN IF upd
         THEN IF Pop(stack) = <<>>
              THEN [stack |-> Pop(stack), selected |-> sel, branch |-> "crash"]
              ELSE [stack |-> Pop(Pop(stack)), selected |-> Top(Pop(stack)),
                    branch |-> "pop2"]
         ELSE [stack |-> Pop(stack), selected |-> sel, branch |-> "pop1"]
    ELSE IF upd
         THEN [stack |-> stack, selected |-> sel, branch |-> "skip"]
         ELSE [stack |-> Append(stack, FromDict(sel.path, Len(stack) + 1)),
               selected |-> sel, branch |-> "push"]

\* Mutant: a parent is pushed for an update-in-place listing too.
NavigateAlwaysPush(stack, sel, upd, url) ==
    IF stack # <<>> /\ sel = Top(stack)
    THEN IF upd
         THEN IF Pop(stack) = <<>>
              THEN [stack |-> Pop(stack), selected |-> sel, branch |-> "crash"]
              ELSE [stack |-> Pop(Pop(stack)), selected |-> Top(Pop(stack)),
                    branch |-> "pop2"]
         ELSE [stack |-> Pop(stack), selected |-> sel, branch |-> "pop1"]
    ELSE [stack |-> Append(stack, FromDict(url, Len(stack) + 1)),
          selected |-> sel, branch |-> IF upd THEN "skip" ELSE "push"]

\* Mutant: after the double pop selected_item is left as chosen.
NavigateNoReassign(stack, sel, upd, url) ==
    IF stack # <<>> /\ sel = Top(stack)
    THEN IF upd
         THEN IF Pop(stack) = <<>>
              THEN [stack |-> Pop(stack), selected |-> sel, branch |-> "crash"]
              ELSE [stack |-> Pop(Pop(stack)), selected |-> sel,
                    branch |-> "pop2"]
         ELSE [stack |-> Pop(stack), selected |-> sel, branch |-> "pop1"]
    ELSE IF upd
         THEN [stack |-> stack, selected |-> sel, branch |-> "skip"]
         ELSE [stack |-> Append(stack, FromDict(url, Len(stack) + 1)),
               selected |-> sel, branch |-> "push"]

\* Mutant: the second pop only reads the entry.
NavigatePeek(stack, sel, upd, url) ==
    IF stack # <<>> /\ sel = Top(stack)
    THEN IF upd
         THEN IF Pop(stack) = <<>>
              THEN [stack |-> Pop(stack), selected |-> sel, branch |-> "crash"]
              ELSE [stack |-> Pop(stack), selected |-> Top(Pop(stack)),
                    branch |-> "pop2"]
         ELSE [stack |-> Pop(stack), selected |-> sel, branch |-> "pop1"]
    ELSE IF upd
         THEN [stack |-> stack, selected |-> sel, branch |-> "skip"]
         ELSE [stack |-> Append(stack, FromDict(url, Len(stack) + 1)),
               selected |-> sel, branch |-> "push"]

\* Mutant: choosing the parent of a normal listing pops nothing.
NavigateNoPop(stack, sel, upd, url) ==
    IF stack # <<>> /\ sel = Top(stack)
    THEN IF upd
         THEN IF Pop(stack) = <<>>
              THEN [stack |-> Pop(stack), selected |-> sel, branch |-> "crash"]
              ELSE [stack |-> Pop(Pop(stack)), selected |-> Top(Pop(stack)),
                    branch |-> "pop2"]
         ELSE [stack |-> stack, selected |-> sel, branch |-> "pop1"]
    ELSE IF upd
         THEN [stack |-> stack, selected |-> sel, branch |-> "skip"]
         ELSE [stack |-> Append(stack, FromDict(url, Len(stack) + 1)),
               selected |-> sel, branch |-> "push"]

\* Mutant: the parent is inserted below the stack.
NavigatePushBottom(stack, sel, upd, url) ==
    IF stack # <<>> /\ sel = Top(stack)
    THEN IF upd
         THEN IF Pop(stack) = <<>>
              THEN [stack |-> Pop(stack), selected |-> sel, branch |-> "crash"]
              ELSE [stack |-> Pop(Pop(stack)), selected |-> Top(Pop(stack)),
                    branch |-> "pop2"]
         ELSE [stack |-> Pop(stack), selected |-> sel, branch |-> "pop1"]
    ELSE IF upd
         THEN [stack |-> stack, selected |-> sel, branch |-> "skip"]
         ELSE [stack |-> <<FromDict(url, Len(stack) + 1)>> \o stack,
               selected |-> sel, branch |-> "push"]

\* The branches of the loop body on parent_stack and selected_item, for the
\* item sel chosen while plugin._update_listing = upd and
\* plugin.request.url = url.  The second pop of an emptied stack raises
\* IndexError ("crash"), which nothing catches.
Navigate(stack, sel, upd, url) ==
    IF stack # <<>> /\ sel = Top(stack)
    THEN IF upd
         THEN IF Pop(stack) = <<>>
              THEN [stack |-> Pop(stack), selected |-> sel, branch |-> "crash"]
              ELSE [stack |-> Pop(Pop(stack)), selected |-> Top(Pop(stack)),
                    branch |-> "pop2"]
         ELSE [stack |-> Pop(stack), selected |-> sel, branch |-> "pop1"]
    ELSE IF upd
         THEN [stack |-> stack, selected |-> sel, branch |-> "skip"]
         ELSE [stack |-> Append(stack, FromDict(url, Len(stack) + 1)),
               selected |-> sel, branch |-> "push"]

\* Mutant: the bottom of the stack is taken.
ParentItemFirst(stack) == IF stack # <<>> THEN stack[1] ELSE None

\* parent_item = None; if parent_stack: parent_item = parent_stack[-1]
ParentItem(stack) == IF stack # <<>> THEN Top(stack) ELSE None

\* items = [... once(plugin) if not item.get_played()]; parent_stack = []
InteractiveStart ==
    /\ mode = "interactive" /\ pc = "start"
    /\ \E res \in PluginResults(argv.path) :
          /\ OnceCall(argv, end_of_directory, None, res)
          /\ items' = NotPlayed(Once(res.items, None))
    /\ parent_stack' = <<>>
    /\ pc' = "prompt"
    /\ UNCHANGED <<mode, selected_item, choice, branch, prev_url, crawl_vars>>

\* get_user_choice(items) answers None: the while loop ends.
Quit ==
    /\ mode = "interactive" /\ pc = "prompt"
    /\ selected_item' = None
    /\ choice' = None
    /\ branch' = "quit"
    /\ prev_url' = request.url
    /\ pc' = "terminated"
    /\ UNCHANGED <<mode, argv, request, update_listing, end_of_directory,
                   run_eod, calls, once_count, plugin_out, once_parent,
                   returned, items, parent_stack,
                   crawl_vars>>

\* get_user_choice(items) answers items[i]: one pass of the loop body, up to
\* the next prompt, or up to the IndexError of the second pop.
Select(i) ==
    /\ mode = "interactive" /\ pc = "prompt"
    /\ NumCalls < MaxCalls
    /\ i \in 1..Len(items)
    /\ LET nav == Navigate(parent_stack, items[i], update_listing, request.url)
       IN  /\ parent_stack' = nav.stack
           /\ selected_item' = nav.selected
           /\ choice' = items[i]
           /\ branch' = nav.branch
           /\ prev_url' = request.url
           /\ IF nav.branch = "crash"
              THEN /\ pc' = "error"
                   /\ UNCHANGED <<argv, request, update_listing,
                                  end_of_directory, run_eod, calls,
                                  once_count, plugin_out, once_parent,
                                  returned, items>>
              ELSE /\ pc' = "prompt"
                   /\ \E res \in PluginResults(nav.selected.path) :
                         /\ OnceCall(PatchPlugin(nav.selected.path),
                                     PatchEndOfDirectory(end_of_directory),
                                     ParentItem(nav.stack), res)
                         /\ items' = NotPlayed(Once(res.items,
                                                    ParentItem(nav.stack)))
    /\ UNCHANGED <<mode, crawl_vars>>

InteractiveNext ==
    \/ InteractiveStart
    \/ Quit
    \/ \E i \in 1..(MaxItems + 1) : Select(i)

----------------------------------------------------------------------------

Next ==
    \/ OnceRun
    \/ InteractiveNext
    \/ CrawlNext

Spec == Init /\ [][Next]_vars

\* The once and interactive modes alone.
NavInit == Init /\ mode \in {"once", "interactive"}

NavNext == OnceRun \/ InteractiveNext

NavSpec == NavInit /\ [][NavNext]_vars

\* The crawl alone.
CrawlInit == Init /\ mode = "crawl"

CrawlSpec == CrawlInit /\ [][CrawlNext]_vars

\* The crawl never stops while a step of it is possible: every step blocks
\* only on the plugin or on the prompt, and both answer.
FairCrawl == CrawlInit /\ [][CrawlNext]_vars /\ WF_vars(CrawlNext)

----------------------------------------------------------------------------
(* Crawl: claims C1, C2, C3, C9, C10 *)

\* The paths plugin.run() has run for.
Fetched == {p \in Paths : calls[p] > 0}

\* The paths reachable from the starting listing by following item paths.
RECURSIVE Closure(_)
Closure(S) ==
    LET T == S \cup UNION {links[p] : p \in S}
    IN  IF T = S THEN S ELSE Closure(T)

Reachable == Closure(links[StartUrl])

\* C1: in a crawl no path is passed to the plugin more than once, the initial
\* fetch of the starting path counted.
C1_NoPathFetchedTwice ==
    mode = "crawl" => \A p \in Paths : calls[p] <= 1

\* C2: over a finite listing graph the crawl loop ends, and unless the user
\* declined at some prompt it ends with an empty frontier.
C2_CrawlTerminates ==
    <>(pc = "done" /\ (declined \/ paths_to_visit = {}))

\* A crawl whose user confirmed every prompt has ended after fetching every
\* path, the starting path a second time through a listing that links back.
C2_Witness ==
    /\ pc = "done" /\ ~declined /\ paths_to_visit = {}
    /\ paths_visited = Paths

\* C3: when the crawl ends because the frontier is empty, every path reachable
\* from the starting listing has been passed to the plugin.
C3_FullyExplored ==
    (mode = "crawl" /\ pc = "done" /\ paths_to_visit = {}) =>
        Reachable \subseteq Fetched

\* A crawl that ended on an empty frontier after exploring a path that only a
\* listing other than the starting one links to.
C3_Witness ==
    /\ mode = "crawl" /\ pc = "done" /\ paths_to_visit = {}
    /\ \E p \in Reachable : p \notin links[StartUrl] /\ p # StartUrl

\* C9: the crawl is breadth-first: no path is fetched while a path discovered
\* at a smaller depth still waits in the frontier.
C9_BreadthFirst ==
    [][\A p \in Paths :
          (pc = "fetch" /\ p \in paths_visited' /\ p \notin paths_visited) =>
              \A q \in paths_to_visit : disc[q] >= disc[p]]_vars

\* C10: every plugin invocation of the crawl loop follows its own prompt
\* answered 'continue'; once the user declines, crawl has returned, nothing
\* more is fetched and the frontier is left as it was.
C10_PromptBeforeFetch ==
    /\ [](mode = "crawl" =>
            NumCalls = (IF pc = "start" THEN 0 ELSE 1) + confirmed
                         - (IF pc = "fetch" THEN 1 ELSE 0))
    /\ [](declined => pc = "done" /\ paths_to_visit # {})
    /\ [][declined => UNCHANGED <<calls, paths_to_visit, paths_visited>>]_vars

\* The user declined after confirming once: paths are left unfetched.
C10_Witness ==
    /\ declined /\ pc = "done" /\ confirmed >= 1
    /\ paths_to_visit # {}

----------------------------------------------------------------------------
(* Once and interactive: claims C4, C5, C6, C7, C8 *)

\* C4: no listing handed to get_user_choice holds a played item, the parent
\* item at its head included.
C4_NoPlayedShown ==
    mode = "interactive" => \A i \in 1..Len(items) : ~items[i].played

\* A listing with a parent item at its head from which a played item of the
\* plugin was dropped.
C4_Witness ==
    /\ mode = "interactive" /\ pc = "prompt"
    /\ parent_stack # <<>> /\ items # <<>> /\ items[1] = Top(parent_stack)
    /\ \E i \in 1..Len(plugin_out) : plugin_out[i].played
    /\ Len(items) < Len(returned)

\* C5 as claimed: a parent item pushed for a normal listing L and chosen next
\* leads to a fetch of L's path.
C5_ParentRoundTrip ==
    [][(branch = "push" /\ branch' \in {"pop1", "pop2"}) =>
          request'.url = prev_url]_vars

\* C5 as amended: if the listing the selection led to is not update-in-place
\* either, choosing the pushed parent item next pops it alone and fetches L's
\* path.
C5_ParentRoundTripNormal ==
    [][(branch = "push" /\ ~update_listing
          /\ branch' \in {"pop1", "pop2", "crash"}) =>
          /\ branch' = "pop1"
          /\ NumCalls' = NumCalls + 1
          /\ request'.url = prev_url
          /\ parent_stack' = Pop(parent_stack)]_vars

\* Two selections after the start: into a listing, and back through its
\* parent item to the starting path, now fetched twice.
C5_Witness ==
    /\ mode = "interactive" /\ branch = "pop1"
    /\ NumCalls = 3 /\ parent_stack = <<>>
    /\ request.url = StartUrl /\ calls[StartUrl] = 2
    /\ choice.path = StartUrl /\ choice.oid = 1

\* C6: choosing an item other than the parent item while the listing shown is
\* update-in-place leaves parent_stack as it is.
C6_UpdateInPlaceNoGrowth ==
    [][(pc = "prompt" /\ update_listing /\ choice' # None
          /\ ~(parent_stack # <<>> /\ choice' = Top(parent_stack))) =>
          parent_stack' = parent_stack]_vars

\* Two such selections in a row, below a parent pushed before them.
C6_Witness ==
    /\ mode = "interactive" /\ branch = "skip" /\ update_listing
    /\ NumCalls = 4 /\ Len(parent_stack) = 1
    /\ calls[StartUrl] = 1 /\ Top(parent_stack).path = StartUrl

C8_ChoiceDrivesLoop ==
    /\ [](mode = "interactive" => (pc = "terminated" <=> choice = None))
    /\ [][pc = "prompt" =>
            IF choice' = None
            THEN pc' = "terminated" /\ UNCHANGED <<calls, parent_stack>>
            ELSE pc' = "prompt" /\ NumCalls' = NumCalls + 1]_vars

-----------------------------------------------------------------------------
(* Interactive: claims C11, C12, C13, C14, C15, C16, C19 *)

C13_PushCurrentListing ==
    [][(pc = "prompt" /\ ~update_listing /\ choice' # None
          /\ ~(parent_stack # <<>> /\ choice' = Top(parent_stack))) =>
          /\ Len(parent_stack') = Len(parent_stack) + 1
          /\ SubSeq(parent_stack', 1, Len(parent_stack)) = parent_stack
          /\ Top(parent_stack').path = request.url
          /\ request'.url = choice'.path]_vars

\* A second push, for a choice whose path is not the path pushed and whose
\* listing is update-in-place.
C13_Witness ==
    /\ mode = "interactive" /\ branch = "push" /\ update_listing
    /\ Len(parent_stack) = 2
    /\ Top(parent_stack).path = prev_url /\ choice.path # prev_url

\* C14: choosing the top of parent_stack while the listing shown is normal
\* removes the top entry alone and the next plugin run is for the path of the
\* entry removed; after one descent from the starting listing the stack is
\* empty again.
C14_SinglePop ==
    [][(pc = "prompt" /\ ~update_listing /\ parent_stack # <<>>
          /\ choice' = Top(parent_stack)) =>
          /\ parent_stack' = SubSeq(parent_stack, 1, Len(parent_stack) - 1)
          /\ NumCalls' = NumCalls + 1
          /\ request'.url = Top(parent_stack).path
          /\ (NumCalls = 2 => parent_stack' = <<>>)]_vars

\* The upper of two entries was popped and its path fetched; the lower one is
\* still there.
C14_Witness ==
    /\ mode = "interactive" /\ branch = "pop1" /\ NumCalls = 4
    /\ Len(parent_stack) = 1 /\ Top(parent_stack).oid = 1
    /\ choice.oid = 2 /\ request.url = choice.path

\* C15: every listing of interactive mode is made with parent_item the top of
\* parent_stack as the step left it, or None when the stack is empty: the
\* listing shown starts with the top of the stack exactly when there is one,
\* and the first listing has no parent item.
C15_ParentItemIsTop ==
    (mode = "interactive" /\ pc \in {"prompt", "terminated"}) =>
        /\ IF parent_stack # <<>>
           THEN /\ once_parent = Top(parent_stack)
                /\ items # <<>>
                /\ items[1] = Top(parent_stack)
                /\ \A i \in 2..Len(items) : items[i].oid = 0
           ELSE /\ once_parent = None
                /\ \A i \in 1..Len(items) : items[i].oid = 0
        /\ (NumCalls = 1 => parent_stack = <<>>)

\* A listing shown above two parents: the upper one leads it, followed by an
\* item of the plugin.
C15_Witness ==
    /\ mode = "interactive" /\ pc = "prompt"
    /\ Len(parent_stack) = 2 /\ Len(items) = 2
    /\ items[1] = parent_stack[2] /\ items[1] # parent_stack[1]

\* C16 as stated: whenever parent_stack is not empty, the path of its top is
\* the path of the listing from which the listing shown was entered.
C16_TopIsImmediateParent ==
    (mode = "interactive" /\ pc = "prompt" /\ parent_stack # <<>>) =>
        Top(parent_stack).path = prev_url

\* C16 as amended: the entries are in the order they were pushed, the oldest
\* first, each the path of a listing fetched; the top is the path of the
\* listing the shown one was entered from when it was entered by choosing an
\* item other than the parent item on a normal listing.  After a choice on an
\* update-in-place listing, or after going up, the top is an older listing.
C16_TopIsLastPushed ==
    mode = "interactive" =>
        /\ \A i \in 1..Len(parent_stack) :
              /\ parent_stack[i].oid = i
              /\ calls[parent_stack[i].path] >= 1
        /\ (branch = "push" =>
              /\ parent_stack # <<>>
              /\ Top(parent_stack).path = prev_url)

\* Two descents through different listings: the stack holds the first below
\* the second.
C16_Witness ==
    /\ mode = "interactive" /\ branch = "push" /\ ~update_listing
    /\ Len(parent_stack) = 2
    /\ parent_stack[1].path # parent_stack[2].path
    /\ parent_stack[2].path = prev_url

\* C19: no pop of parent_stack is made on an empty stack: interactive mode
\* never ends in the IndexError of the second pop.
C19_PopNeverFails ==
    mode = "interactive" => (pc # "error" /\ branch # "crash")

-----------------------------------------------------------------------------
(* Crawl: claims C17, C20; all modes: claim C18 *)

\* C17: in a crawl paths_visited is exactly the set of paths fetched so far,
\* and it only grows.
C17_VisitedIsFetched ==
    /\ [](mode = "crawl" => paths_visited = Fetched)
    /\ [][paths_visited \subseteq paths_visited']_vars

\* C18: every plugin run after the first has the handle of the run before it,
\* the handle PluginManager.run gave the first, and finds the end-of-directory
\* flag reset to False.
C18_HandleKeptFlagReset ==
    /\ [](NumCalls >= 1 =>
            /\ argv.handle = Handle
            /\ request.handle = Handle)
    /\ [][(NumCalls >= 1 /\ NumCalls' = NumCalls + 1) =>
            /\ argv'.handle = request.handle
            /\ request'.handle = request.handle
            /\ run_eod' = FALSE]_vars

\* A later run, for another path, started with the flag reset although the
\* run before it had ended the directory.
C18_Witness ==
    /\ NumCalls >= 3 /\ request.url # StartUrl
    /\ request.handle = Handle /\ ~run_eod /\ end_of_directory

\* C20: paths_to_visit and paths_visited are disjoint, and a path of
\* paths_visited is never added to paths_to_visit, not even by its own
\* listing.
C20_FrontierDisjointFromVisited ==
    /\ [](mode = "crawl" => paths_to_visit \cap paths_visited = {})
    /\ [][\A p \in paths_visited' : p \notin paths_to_visit']_vars

\* A path whose own listing names it was fetched and is not in paths_to_visit.
C20_Witness ==
    /\ mode = "crawl" /\ pc = "loop"
    /\ \E p \in paths_visited : p \in links[p] /\ p \notin paths_to_visit

====
